---- MODULE Spec2Model ----
(***************************************************************************)
(* The ImgBB image URL cache of jellyfin-rpc (external/imgbb.rs):          *)
(* get_image, read_file and upload over one JSON cache file, a wall clock  *)
(* with sub-second resolution and a filesystem whose operations may fail.  *)
(***************************************************************************)
EXTENDS Integers, Sequences, FiniteSets, TLC

(* ------------------------------ bounds -------------------------------- *)

\* Clock instants per second: SystemTime has sub-second resolution, the
\* cache file stores whole seconds.
SubSec == 2
\* The clock runs over the instants -1 .. MaxTick (-1: before UNIX_EPOCH).
MaxTick == 2
\* The configured imgbb_options.expiration ranges over 0 .. MaxTTL seconds.
MaxTTL == 1
\* Entries of the cache file the program starts with: at most MaxInitLen.
MaxInitLen == 2
\* expiration_from_unix_seconds of those entries: 0 .. MaxInitExp, the whole
\* seconds the clock covers.
MaxInitExp == MaxTick \div SubSec

\* usize has UsizeBits bits (scaled down from the target's pointer width).
UsizeBits == 5

(* ----------------------------- data model ----------------------------- *)

UsizeModulus == 2^UsizeBits

\* session.item_id of the media item being played.
Items == {"a", "b"}

\* imgbb_options.urls_location: a path with a parent folder, and the empty
\* path, for which Path::parent() is None.
Paths == {"cfg/urls.json", ""}

\* JfResult<T>
Ok(v) == [ok |-> TRUE, val |-> v, err |-> "none"]
Err(e) == [ok |-> FALSE, val |-> "none", err |-> e]

\* struct ImageUrl
ImageUrl(id, url, expiration) ==
    [id |-> id, url |-> url, expiration_from_unix_seconds |-> expiration]

\* ImageUrl::expiration_as_duration: Duration::from_secs, a whole number of
\* seconds as an instant of the clock.
expiration_as_duration(image_url) ==
    image_url.expiration_from_unix_seconds * SubSec

\* Duration::as_secs of the current time: the sub-second part is dropped.
as_secs(current_unix) == current_unix \div SubSec

\* Url::parse followed by Url::as_str: scheme and host are lower-cased, a
\* string that is no URL is an error.
UrlParse(s) ==
    CASE s = "HTTP://A" -> Ok("http://a")
      [] s = "http://a" -> Ok("http://a")
      [] s = "http://b" -> Ok("http://b")
      [] s = "http://c" -> Ok("http://c")
      [] OTHER -> Err("url")

(* --------------------------- the cache file --------------------------- *)

\* The content of the file at urls_location. kind:
\*   "absent"   no such file
\*   "binary"   bytes that are not UTF-8 (read_to_string fails)
\*   "garbage"  text that is not JSON
\*   "empty"    zero bytes (a created or truncated file)
\*   "partial"  a proper prefix of a serialized array
\*   "array"    a JSON array of the objects in items
Content(kind, items) == [kind |-> kind, items |-> items]
Absent == Content("absent", <<>>)
EmptyFile == Content("empty", <<>>)
PartialFile == Content("partial", <<>>)

ExpiryKey == "expiration_from_unix_seconds"

\* serde_json::to_string(&Vec<ImageUrl>): one object per entry, the three
\* fields under their names.
to_string(image_urls) ==
    Content("array",
            [i \in 1..Len(image_urls) |->
                [id |-> image_urls[i].id,
                 url |-> image_urls[i].url,
                 expiration_from_unix_seconds |->
                     image_urls[i].expiration_from_unix_seconds]])

\* One object deserializes as ImageUrl: the three fields are present and the
\* expiry is an unsigned integer that fits usize.
IsImageUrlObject(o) ==
    /\ {"id", "url", ExpiryKey} \subseteq DOMAIN o
    /\ o[ExpiryKey] \in 0..(UsizeModulus - 1)

\* serde_json::from_str::<Vec<ImageUrl>>
from_str(contents_raw) ==
    IF /\ contents_raw.kind = "array"
       /\ \A i \in 1..Len(contents_raw.items) :
              IsImageUrlObject(contents_raw.items[i])
    THEN Ok([i \in 1..Len(contents_raw.items) |->
                ImageUrl(contents_raw.items[i].id,
                         contents_raw.items[i].url,
                         contents_raw.items[i][ExpiryKey])])
    ELSE Err("json")

\* Path::parent of urls_location.
Parent(path) == IF path = "" THEN Err("noparent") ELSE Ok("cfg")

(* --------------------------- the filesystem --------------------------- *)

\* fs = [dir |-> the parent folder exists, file |-> Content]

\* fs::read_to_string(urls_location): the text, or an error (no such file,
\* or bytes that are not UTF-8).
read_to_string(f, path) ==
    IF path = "" \/ f.file.kind = "absent" THEN {Err("io")}
    ELSE IF f.file.kind = "binary" THEN {Err("utf8")}
    ELSE {Ok(f.file)}

\* fs::create_dir_all(parent): nothing to do for a folder that exists,
\* otherwise the folder is created or the call fails.
create_dir_all(f) ==
    IF f.dir THEN {[ok |-> TRUE, fs |-> f]}
    ELSE {[ok |-> TRUE, fs |-> [f EXCEPT !.dir = TRUE]],
          [ok |-> FALSE, fs |-> f]}

\* File::create(urls_location): creates or truncates the file, or fails and
\* leaves it alone. It fails when the folder is missing.
FileCreate(f) ==
    {[ok |-> FALSE, fs |-> f]} \cup
    (IF f.dir THEN {[ok |-> TRUE, fs |-> [f EXCEPT !.file = EmptyFile]]}
     ELSE {})

\* OpenOptions::new().write(true).truncate(true).open(urls_location): no
\* create flag, so it fails on a missing file; success truncates the file.
OpenTruncate(f) ==
    {[ok |-> FALSE, fs |-> f]} \cup
    (IF f.file.kind # "absent"
     THEN {[ok |-> TRUE, fs |-> [f EXCEPT !.file = EmptyFile]]}
     ELSE {})

\* file.write_all(text) on a file just truncated: the whole text, or an
\* error after none or some of the bytes were written.
write_all(f, text) ==
    {[ok |-> TRUE, fs |-> [f EXCEPT !.file = text]],
     [ok |-> FALSE, fs |-> [f EXCEPT !.file = EmptyFile]],
     [ok |-> FALSE, fs |-> [f EXCEPT !.file = PartialFile]]}

\* file.flush(): it succeeds or fails; no caller looks at the result.
flush == {TRUE, FALSE}

\* Mutant of Flushed: the flush result is propagated (file.flush()?).
FlushChecked(fl, value) == IF fl THEN Ok(value) ELSE Err("flush")

\* let _ = file.flush(); Ok(value): the value is returned whatever the flush
\* did.
Flushed(fl, value) == Ok(value)

(* ------------------------------ read_file ----------------------------- *)

\* What one call of read_file did: its result, the filesystem it leaves, the
\* number of write_all calls, and the operations that returned an error.
Loaded(res, f, writes, failed) ==
    [res |-> res, fs |-> f, writes |-> writes, failed |-> failed]

\* Mutant of RecreateWrite: the created file is left as it is, nothing is
\* written to it.
RecreateNoWrite(f, failed) == {Loaded(Ok(<<>>), f, 0, failed)}

\* read_file, once the file is created: an empty vector is serialized and
\* written, the flush result is dropped, and the vector is returned.
RecreateWrite(f, failed) ==
    UNION {
      IF ~w.ok
      THEN {Loaded(Err("write"), w.fs, 1, failed \cup {"load_write"})}
      ELSE {Loaded(Flushed(fl, <<>>), w.fs, 1,
                   failed \cup (IF fl THEN {} ELSE {"load_flush"}))
            : fl \in flush}
      : w \in write_all(f, to_string(<<>>))}

\* read_file after the file could not be read or parsed: the parent folder
\* and the file are created and an empty array is written.
Recreate(f, path, failed) ==
    IF ~Parent(path).ok
    THEN {Loaded(Err("noparent"), f, 0, failed \cup {"parent"})}
    ELSE UNION {
      IF ~d.ok
      THEN {Loaded(Err("create_dir_all"), d.fs, 0,
                   failed \cup {"create_dir_all"})}
      ELSE UNION {
        IF ~c.ok
        THEN {Loaded(Err("create"), c.fs, 0, failed \cup {"create"})}
        ELSE RecreateWrite(c.fs, failed)
        : c \in FileCreate(d.fs)}
      : d \in create_dir_all(f)}

\* Mutant of read_file: a file that does not parse is an error of the call.
read_file_strict(f, path) ==
    UNION {
      IF r.ok
      THEN IF from_str(r.val).ok
           THEN {Loaded(Ok(from_str(r.val).val), f, 0, {})}
           ELSE {Loaded(Err("json"), f, 0, {"parse"})}
      ELSE Recreate(f, path, {"read"})
      : r \in read_to_string(f, path)}

\* read_file: the entries of a file that reads and parses, otherwise the
\* store recreated empty.
read_file(f, path) ==
    UNION {
      IF r.ok
      THEN IF from_str(r.val).ok
           THEN {Loaded(Ok(from_str(r.val).val), f, 0, {})}
           ELSE Recreate(f, path, {"parse"})
      ELSE Recreate(f, path, {"read"})
      : r \in read_to_string(f, path)}

(* ------------------------------- upload ------------------------------- *)

\* The data.url strings the image host may answer with.
ResponseUrls == {"HTTP://A", "http://b", "no url"}

\* upload: the artwork is fetched (one request), posted to the image host (a
\* second request), the answer parsed as JSON and its data.url as a URL.
\* net counts the requests sent.
upload ==
    {[res |-> Err("fetch"), net |-> 1],
     [res |-> Err("post"), net |-> 2],
     [res |-> Err("response"), net |-> 2]}
    \cup {[res |-> UrlParse(s), net |-> 2] : s \in ResponseUrls}

(* ------------------------------ get_image ----------------------------- *)

NoEntry == ImageUrl("", "", 0)

\* What one call of get_image did. res: the JfResult<Url> returned; fs: the
\* filesystem it leaves; afterLoad, loaded, loadWrites: the filesystem, the
\* result and the write_all calls of its read_file; lookup: "none" (not
\* reached), "miss", "expired" or "hit";
\* found: the entry the lookup found; uploads: calls of upload; net: requests
\* sent; writes: write_all calls; failed: the operations that returned an
\* error; image_urls: the in-memory sequence when the call ended.
Called(res, f, L, lookup, found, uploads, net, writes, failed, image_urls) ==
    [res |-> res, fs |-> f, afterLoad |-> L.fs, loaded |-> L.res,
     loadWrites |-> L.writes, lookup |-> lookup, found |-> found,
     uploads |-> uploads, net |-> net, writes |-> writes, failed |-> failed,
     image_urls |-> image_urls]

\* SystemTime::now().duration_since(UNIX_EPOCH): an error for a clock set
\* before the epoch.
duration_since_epoch(system_time) ==
    IF system_time < 0 THEN Err("clock") ELSE Ok(system_time)

\* iter().enumerate().find(item_id == image_url.id): the index (from 1) of
\* the first entry of the item, 0 when there is none.
find(image_urls, item_id) ==
    LET hits == {i \in 1..Len(image_urls) : image_urls[i].id = item_id}
    IN IF hits = {} THEN 0 ELSE CHOOSE i \in hits : \A j \in hits : i <= j

\* Mutant of remove: the stale entry stays in the sequence.
removeNothing(image_urls, index) == image_urls

\* Mutant of remove: the sequence is cut at the index (Vec::truncate).
removeFrom(image_urls, index) == SubSeq(image_urls, 1, index - 1)

\* Vec::remove(index)
remove(image_urls, index) ==
    SubSeq(image_urls, 1, index - 1)
        \o SubSeq(image_urls, index + 1, Len(image_urls))

\* Mutant of IsExpired: an entry that expires now is already expired.
IsExpiredOrEqual(expiration_unix, current_unix) ==
    expiration_unix <= current_unix

\* Mutant of IsExpired: the comparison is taken the other way round
\* (Ordering::Greater).
IsExpiredReversed(expiration_unix, current_unix) ==
    expiration_unix > current_unix

\* expiration_unix.cmp(&current_unix) == Ordering::Less
IsExpired(expiration_unix, current_unix) == expiration_unix < current_unix

\* current_unix.as_secs() as usize + client.imgbb_options.expiration
imgbb_expiration(current_unix, expiration) ==
    (as_secs(current_unix) + expiration) % UsizeModulus

\* The sum of line 69 does not fit a usize: a build with overflow checks
\* panics there, a build without them wraps.
Overflows(current_unix, expiration) ==
    as_secs(current_unix) + expiration >= UsizeModulus

\* Mutant of NewImageUrl: id and url are passed in the wrong order.
NewImageUrlSwapped(item_id, imgbb_url, current_unix, expiration) ==
    ImageUrl(imgbb_url, item_id, imgbb_expiration(current_unix, expiration))

\* The entry pushed after an upload.
NewImageUrl(item_id, imgbb_url, current_unix, expiration) ==
    ImageUrl(item_id, imgbb_url, imgbb_expiration(current_unix, expiration))

\* Mutant of UploadFailed: the in-memory sequence, with the expired entry
\* removed, is written to the file before the error is returned.
UploadFailedSaved(L, u, lookup, found, image_urls) ==
    Called(u.res, [L.fs EXCEPT !.file = to_string(image_urls)], L, lookup,
           found, 1, u.net, L.writes + 1, L.failed \cup {"upload"},
           image_urls)

\* upload(client)? with an error: get_image returns it, the file as
\* read_file left it and the in-memory sequence dropped.
UploadFailed(L, u, lookup, found, image_urls) ==
    Called(u.res, L.fs, L, lookup, found, 1, u.net, L.writes,
           L.failed \cup {"upload"}, image_urls)

\* Mutant of WriteError: the result of write_all is dropped like that of
\* flush, and the URL is returned.
WriteErrorIgnored(imgbb_url) == Ok(imgbb_url)

\* file.write_all(..)? with an error: get_image returns it, not the URL.
WriteError(imgbb_url) == Err("write")

\* get_image from the upload on: upload, compute the expiry (a panic is one
\* outcome when the sum overflows), push the new entry, open the file
\* truncating it, write the whole sequence, flush, return the URL.
UploadAndSave(L, item_id, current_unix, ttl, image_urls, lookup, found) ==
    UNION {
      IF ~u.res.ok
      THEN {UploadFailed(L, u, lookup, found, image_urls)}
      ELSE
        LET pushed == Append(image_urls,
                             NewImageUrl(item_id, u.res.val, current_unix,
                                         ttl))
        IN (IF Overflows(current_unix, ttl)
            THEN {Called(Err("panic"), L.fs, L, lookup, found, 1, u.net,
                         L.writes, L.failed \cup {"overflow"}, image_urls)}
            ELSE {})
           \cup UNION {
          IF ~o.ok
          THEN {Called(Err("open"), o.fs, L, lookup, found, 1, u.net,
                       L.writes, L.failed \cup {"open"}, pushed)}
          ELSE UNION {
            IF ~w.ok
            THEN {Called(WriteError(u.res.val), w.fs, L, lookup, found, 1,
                         u.net, L.writes + 1, L.failed \cup {"save_write"}, pushed)}
            ELSE {Called(Flushed(fl, u.res.val), w.fs, L, lookup, found, 1, u.net,
                         L.writes + 1,
                         L.failed \cup (IF fl THEN {} ELSE {"save_flush"}),
                         pushed)
                  : fl \in flush}
            : w \in write_all(o.fs, to_string(pushed))}
          : o \in OpenTruncate(L.fs)}
      : u \in upload}

\* Mutant of Hit: the file is rewritten on a hit as well.
HitRewrites(L, image_urls, index) ==
    LET url == UrlParse(image_urls[index].url)
    IN {Called(url, [L.fs EXCEPT !.file = to_string(image_urls)], L, "hit",
               image_urls[index], 0, 0, L.writes + 1,
               L.failed \cup (IF url.ok THEN {} ELSE {"url"}), image_urls)}

\* Mutant of Hit: the stored string is returned without being parsed.
HitUnparsed(L, image_urls, index) ==
    {Called(Ok(image_urls[index].url), L.fs, L, "hit", image_urls[index], 0,
            0, L.writes, L.failed, image_urls)}

\* The return of a found entry that is not expired.
Hit(L, image_urls, index) ==
    LET url == UrlParse(image_urls[index].url)
    IN {Called(url, L.fs, L, "hit", image_urls[index], 0, 0, L.writes,
               L.failed \cup (IF url.ok THEN {} ELSE {"url"}), image_urls)}

\* get_image: every outcome of one call for item_id at system_time.
get_image(f, options, item_id, system_time) ==
    UNION {
      IF ~L.res.ok
      THEN {Called(Err(L.res.err), L.fs, L, "none", NoEntry, 0, 0, L.writes,
                   L.failed, <<>>)}
      ELSE
        LET current_unix == duration_since_epoch(system_time)
            image_urls == L.res.val
            index == find(image_urls, item_id)
        IN IF ~current_unix.ok
           THEN {Called(Err("clock"), L.fs, L, "none", NoEntry, 0, 0,
                        L.writes, L.failed \cup {"clock"}, image_urls)}
           ELSE IF index = 0
           THEN UploadAndSave(L, item_id, current_unix.val,
                              options.expiration, image_urls, "miss", NoEntry)
           ELSE IF IsExpired(expiration_as_duration(image_urls[index]),
                             current_unix.val)
           THEN UploadAndSave(L, item_id, current_unix.val,
                              options.expiration, remove(image_urls, index),
                              "expired", image_urls[index])
           ELSE Hit(L, image_urls, index)
      : L \in read_file(f, options.urls_location)}

(* ------------------------------- state -------------------------------- *)

VARIABLES
    fs,       \* the filesystem: the parent folder and the cache file
    now,      \* the wall clock, in instants since UNIX_EPOCH
    options,  \* client.imgbb_options: expiration and urls_location
    fresh,    \* the program started from an absent file or an empty array
    last,     \* the latest get_image call: its item, time, the filesystem
              \* before it, and what it did (Called)
    calls,    \* the get_image calls in progress side by side, one per caller
    config    \* ConfigBuilder::load: what it is given and what it returned

vars == <<fs, now, options, fresh, last, calls, config>>

\* The JSON objects of the cache files the program may start with.
InitObjects ==
    {[id |-> "a", url |-> "http://c", expiration_from_unix_seconds |-> e]
        : e \in 0..MaxInitExp}
    \cup {[id |-> "a", url |-> "no url", expiration_from_unix_seconds |-> 0]}

\* The arrays of at most MaxInitLen such objects.
InitArrays ==
    UNION {[1..n -> InitObjects] : n \in 0..MaxInitLen}

\* The contents of the cache file the program may start with: absent,
\* unreadable, not JSON, an array whose entry lacks the expiry field, and
\* well-formed arrays.
InitContents ==
    {Absent, Content("binary", <<>>), Content("garbage", <<>>),
     Content("array", <<[id |-> "a", url |-> "http://c"]>>)}
    \cup {Content("array", items) : items \in InitArrays}

\* No call runs beside the one of GetImage.
NoCalls == <<>>

\* ConfigBuilder::load is not part of the run.
NoConfig == <<>>

NoCall ==
    [item |-> "", time |-> -1, pre |-> [dir |-> FALSE, file |-> Absent]]
    @@ Called(Err("none"), [dir |-> FALSE, file |-> Absent],
              Loaded(Err("none"), [dir |-> FALSE, file |-> Absent], 0, {}),
              "none", NoEntry, 0, 0, 0, {}, <<>>)

Init ==
    /\ options \in [expiration : 0..MaxTTL, urls_location : Paths]
    /\ fs \in {[dir |-> FALSE, file |-> Absent]}
              \cup (IF options.urls_location = "" THEN {}
                    ELSE {[dir |-> TRUE, file |-> c] : c \in InitContents})
    /\ fresh = (fs.file \in {Absent, Content("array", <<>>)})
    /\ now = -1
    /\ last = NoCall
    /\ calls = NoCalls
    /\ config = NoConfig

\* One call of get_image for item_id, from load to return.
GetImage(item_id) ==
    \E o \in get_image(fs, options, item_id, now) :
        /\ fs' = o.fs
        /\ last' = [item |-> item_id, time |-> now, pre |-> fs] @@ o
        /\ UNCHANGED <<now, options, fresh, calls, config>>

\* The wall clock advances by one instant.
Tick ==
    /\ now < MaxTick
    /\ now' = now + 1
    /\ UNCHANGED <<fs, options, fresh, last, calls, config>>

Next ==
    \/ \E item_id \in Items : GetImage(item_id)
    \/ Tick

Spec == Init /\ [][Next]_vars

\* The program started with an expiration near the largest usize: the
\* configuration accepts any usize.
InitOverflow ==
    /\ options \in [expiration : (UsizeModulus - 1 - MaxTTL)..(UsizeModulus - 1),
                     urls_location : Paths]
    /\ fs \in {[dir |-> FALSE, file |-> Absent]}
              \cup (IF options.urls_location = "" THEN {}
                    ELSE {[dir |-> TRUE, file |-> c] : c \in InitContents})
    /\ fresh = (fs.file \in {Absent, Content("array", <<>>)})
    /\ now = -1
    /\ last = NoCall
    /\ calls = NoCalls
    /\ config = NoConfig

SpecOverflow == InitOverflow /\ [][Next]_vars

(* -------------------------- ConfigBuilder::load ----------------------- *)

\* Option<T>
None == [some |-> FALSE, val |-> ""]
Some(v) == [some |-> TRUE, val |-> v]

\* Option<ImgBB>: the section is missing, or holds an optional api_token and
\* an optional expiration.
NoImgBB ==
    [some |-> FALSE, val |-> [api_token |-> None, expiration |-> None]]
SomeImgBB(api_token, expiration) ==
    [some |-> TRUE,
     val |-> [api_token |-> api_token, expiration |-> expiration]]

\* The ConfigBuilder values a configuration file may deserialize to: the
\* Jellyfin api_key given or not, the imgbb section missing, without token,
\* or with a token.
ParsedConfigs ==
    {[jellyfin |-> [api_key |-> k], imgbb |-> i]
        : k \in {None, Some("k0")},
          i \in {NoImgBB, SomeImgBB(None, Some("60")),
                 SomeImgBB(Some("t0"), Some("60"))}}

\* The file at config_path: it cannot be read, it is not a ConfigBuilder in
\* JSON, or it deserializes.
ConfigFiles ==
    {[kind |-> k, parsed |-> CHOOSE c \in ParsedConfigs : TRUE]
        : k \in {"unreadable", "invalid"}}
    \cup {[kind |-> "config", parsed |-> c] : c \in ParsedConfigs}

\* The key files: two that exist, and a path that cannot be read.
KeyFiles == {"jellyfin.key", "imgbb.key"}
KeyPaths == KeyFiles \cup {"missing.key"}
KeyTexts == {" k1\n", "t1", ""}

\* str::trim
trim(text) == IF text = " k1\n" THEN "k1" ELSE text

\* std::fs::read_to_string(key_path)
read_key_file(files, path) ==
    IF path \in KeyFiles THEN Ok(files[path]) ELSE Err("io")

\* Lines 271-274: the configuration file is read, then deserialized.
ReadConfig(config_file) ==
    CASE config_file.kind = "unreadable" -> Err("InvalidConfigPath")
      [] config_file.kind = "invalid" -> Err("InvalidConfig")
      [] OTHER -> Ok(config_file.parsed)

\* Mutant of JellyfinKeyFile: a key given in the configuration is kept.
JellyfinKeyFileKeeps(cfg, jellyfin_key_path, files) ==
    IF ~jellyfin_key_path.some THEN Ok(cfg)
    ELSE LET key_data == read_key_file(files, jellyfin_key_path.val)
         IN IF ~key_data.ok THEN Err("InvalidJellyfinKeyPath")
            ELSE IF cfg.jellyfin.api_key.some THEN Ok(cfg)
            ELSE Ok([cfg EXCEPT !.jellyfin.api_key = Some(trim(key_data.val))])

\* Lines 276-288: with a Jellyfin key path, the key file is read and its
\* trimmed text becomes the api_key, over one given in the configuration.
JellyfinKeyFile(cfg, jellyfin_key_path, files) ==
    IF ~jellyfin_key_path.some THEN Ok(cfg)
    ELSE LET key_data == read_key_file(files, jellyfin_key_path.val)
         IN IF ~key_data.ok THEN Err("InvalidJellyfinKeyPath")
            ELSE Ok([cfg EXCEPT !.jellyfin.api_key = Some(trim(key_data.val))])

\* Lines 290-307: with an ImgBB key path, the key file is read and its
\* trimmed text becomes the api_token of the imgbb section, which is created
\* without expiration when the configuration has none.
ImgBBKeyFile(cfg, imgbb_key_path, files) ==
    IF ~imgbb_key_path.some THEN Ok(cfg)
    ELSE LET key_data == read_key_file(files, imgbb_key_path.val)
         IN IF ~key_data.ok THEN Err("InvalidImgBBKeyPath")
            ELSE IF cfg.imgbb.some
            THEN Ok([cfg EXCEPT
                       !.imgbb.val.api_token = Some(trim(key_data.val))])
            ELSE Ok([cfg EXCEPT
                       !.imgbb = SomeImgBB(Some(trim(key_data.val)), None)])

\* Lines 309-311: a configuration without Jellyfin api_key is refused.
CheckJellyfinKey(cfg) ==
    IF ~cfg.jellyfin.api_key.some THEN Err("MissingJellyfinKey") ELSE Ok(cfg)

\* ConfigBuilder::load
load(config_file, jellyfin_key_path, imgbb_key_path, files) ==
    LET cfg == ReadConfig(config_file)
    IN IF ~cfg.ok THEN cfg
       ELSE LET j == JellyfinKeyFile(cfg.val, jellyfin_key_path, files)
            IN IF ~j.ok THEN j
               ELSE LET i == ImgBBKeyFile(j.val, imgbb_key_path, files)
                    IN IF ~i.ok THEN i ELSE CheckJellyfinKey(i.val)

\* What load may be given.
ConfigInputs ==
    [config_file : ConfigFiles,
     jellyfin_key_path : {None} \cup {Some(q) : q \in KeyPaths \ {"imgbb.key"}},
     imgbb_key_path : {None} \cup {Some(q) : q \in KeyPaths \ {"jellyfin.key"}},
     files : [KeyFiles -> KeyTexts]]

\* The program is started: the arguments and the files are there, load has
\* not run, no image was asked for.
InitConfig ==
    /\ config \in {[input |-> i, loaded |-> FALSE, result |-> Err("none")]
                        : i \in ConfigInputs}
    /\ options = [expiration |-> 0, urls_location |-> ""]
    /\ fs = [dir |-> FALSE, file |-> Absent]
    /\ fresh = TRUE
    /\ now = -1
    /\ last = NoCall
    /\ calls = NoCalls

\* The one call of ConfigBuilder::load at start-up.
LoadConfig ==
    /\ ~config.loaded
    /\ config' = [config EXCEPT
                    !.loaded = TRUE,
                    !.result = load(config.input.config_file,
                                    config.input.jellyfin_key_path,
                                    config.input.imgbb_key_path,
                                    config.input.files)]
    /\ UNCHANGED <<fs, now, options, fresh, last, calls>>

SpecConfig == InitConfig /\ [][LoadConfig]_vars

(* ---------------------- get_image calls side by side ------------------ *)

\* Two callers (two sessions, or two processes sharing urls_location), each
\* making one call of get_image. A call is four steps, between which the
\* other caller may run: read_file with the clock and the lookup; upload and
\* push; the open that truncates; write_all with the return. The environment
\* does not fail here: the only errors are those of upload.
Callers == {1, 2}

\* A caller that has not called. pc: where the call stands; snapshot: the
\* file as read_file read it; image_urls: the in-memory sequence; res: the
\* upload's URL, then the result returned; order: 0, or the rank of the
\* call's write_all among the writes of get_image; stale: another call wrote
\* after this call loaded; sawTruncated: read_file read the file while the
\* other call stood between its open and its write_all; reset: read_file
\* recreated the file.
Idle ==
    [pc |-> "idle", item |-> "", snapshot |-> Absent, image_urls |-> <<>>,
     lookup |-> "none", found |-> NoEntry, res |-> Err("none"), time |-> -1,
     order |-> 0, stale |-> FALSE, sawTruncated |-> FALSE, reset |-> FALSE]

\* The sequences without two entries of one id.
NoDuplicateIds(entries) ==
    \A i, j \in 1..Len(entries) : entries[i].id = entries[j].id => i = j

\* The files the two callers may start from: absent, or a well-formed array
\* without duplicate ids.
SharedContents ==
    {Absent} \cup {Content("array", items) : items \in
                      {a \in InitArrays : NoDuplicateIds(a)}}

\* Mutant of Overwrite: bytes another handle wrote are not overwritten.
OverwriteKeeps(current, text) ==
    IF current.kind = "empty" THEN {text} ELSE {current}

\* write_all(text) at offset 0 of a handle opened with truncate, on the
\* file as it is by now. Empty (nobody wrote since): the text. Shorter
\* content written by the other caller since the open: covered, the text.
\* Longer content: the text followed by the rest of that content, which is
\* not JSON. Same number of entries: either, by the lengths in bytes.
Overwrite(current, text) ==
    IF current.kind = "empty" THEN {text}
    ELSE IF current.kind # "array" THEN {text, Content("garbage", <<>>)}
    ELSE IF Len(current.items) < Len(text.items) THEN {text}
    ELSE IF Len(current.items) > Len(text.items)
    THEN {Content("garbage", <<>>)}
    ELSE {text, Content("garbage", <<>>)}

InitShared ==
    /\ options = [expiration |-> MaxTTL, urls_location |-> "cfg/urls.json"]
    /\ fs \in {[dir |-> TRUE, file |-> c] : c \in SharedContents}
    /\ fresh = (fs.file \in {Absent, Content("array", <<>>)})
    /\ now = 0
    /\ last = NoCall
    /\ calls = [c \in Callers |-> Idle]
    /\ config = NoConfig

\* Lines 48-64: read_file, the clock, the lookup; a hit returns.
CallLoad(c, item_id) ==
    /\ calls[c].pc = "idle"
    /\ \E L \in read_file(fs, options.urls_location) :
        /\ L.failed \subseteq {"read", "parse"}
        /\ LET image_urls == L.res.val
               index == find(image_urls, item_id)
               expired == IsExpired(expiration_as_duration(image_urls[index]),
                                    now)
               hit == index # 0 /\ ~expired
           IN calls' = [calls EXCEPT ![c] =
                 [pc |-> IF hit THEN "done" ELSE "loaded",
                  item |-> item_id,
                  snapshot |-> fs.file,
                  image_urls |-> IF index = 0 \/ hit THEN image_urls
                                 ELSE remove(image_urls, index),
                  lookup |-> IF index = 0 THEN "miss"
                             ELSE IF hit THEN "hit" ELSE "expired",
                  found |-> IF index = 0 THEN NoEntry ELSE image_urls[index],
                  res |-> IF hit THEN UrlParse(image_urls[index].url)
                          ELSE Err("none"),
                  time |-> now,
                  order |-> 0,
                  stale |-> FALSE,
                  sawTruncated |->
                      /\ fs.file = EmptyFile
                      /\ \E d \in Callers : calls[d].pc = "opened",
                  reset |-> L.writes > 0]]
        /\ fs' = L.fs
    /\ UNCHANGED <<now, options, fresh, last, config>>

\* Lines 68-77: upload; an error returns, a URL is pushed with its expiry.
CallUpload(c) ==
    /\ calls[c].pc = "loaded"
    /\ \E u \in upload :
        calls' = [calls EXCEPT ![c] =
            IF u.res.ok
            THEN [@ EXCEPT !.pc = "uploaded",
                           !.res = u.res,
                           !.image_urls =
                               Append(@, NewImageUrl(calls[c].item, u.res.val,
                                                     calls[c].time,
                                                     options.expiration))]
            ELSE [@ EXCEPT !.pc = "done", !.res = u.res]]
    /\ UNCHANGED <<fs, now, options, fresh, last, config>>

\* Lines 79-82: the open that truncates the file.
CallOpen(c) ==
    /\ calls[c].pc = "uploaded"
    /\ \E o \in OpenTruncate(fs) : o.ok /\ fs' = o.fs
    /\ calls' = [calls EXCEPT ![c].pc = "opened"]
    /\ UNCHANGED <<now, options, fresh, last, config>>

\* Lines 84-88: write_all of the whole sequence, flush, return of the URL.
CallWrite(c) ==
    /\ calls[c].pc = "opened"
    /\ \E text \in Overwrite(fs.file, to_string(calls[c].image_urls)) :
        fs' = [fs EXCEPT !.file = text]
    /\ calls' = [d \in Callers |->
          IF d = c
          THEN [calls[d] EXCEPT
                  !.pc = "done",
                  !.res = Flushed(TRUE, calls[d].res.val),
                  !.order = 1 + Cardinality({e \in Callers :
                                                calls[e].order > 0})]
          ELSE IF calls[d].pc \in {"loaded", "uploaded", "opened"}
          THEN [calls[d] EXCEPT !.stale = TRUE]
          ELSE calls[d]]
    /\ UNCHANGED <<now, options, fresh, last, config>>

NextShared ==
    \/ \E c \in Callers, item_id \in Items : CallLoad(c, item_id)
    \/ \E c \in Callers : CallUpload(c)
    \/ \E c \in Callers : CallOpen(c)
    \/ \E c \in Callers : CallWrite(c)
    \/ Tick

SpecShared == InitShared /\ [][NextShared]_vars

(* ------------------------ vocabulary of the claims -------------------- *)

\* The file holds a JSON array that deserializes as Vec<ImageUrl>.
WellFormed(file) == from_str(file).ok

\* The entries of a well-formed file.
EntriesOf(file) == from_str(file).val

\* The positions of the entries for id in a sequence of entries.
PositionsOf(entries, id) ==
    {i \in 1..Len(entries) : entries[i].id = id}

\* The whole seconds and the sub-second part of a clock instant.
WholeSeconds(t) == t \div SubSec
SubSecond(t) == t % SubSec

\* The latest call uploaded and saved from a well-formed file that held no
\* entry for its item.
FirstUpload ==
    /\ WellFormed(last.pre.file)
    /\ PositionsOf(EntriesOf(last.pre.file), last.item) = {}
    /\ last.uploads = 1
    /\ last.res.ok

(* -------------------------------- C1 ---------------------------------- *)

\* C1: from a well-formed file with no entry for X, a call that uploaded and
\* returned U leaves X -> U as the last entry of the file, and the next call,
\* for the same X at an instant not after that entry's expiry, is a hit that
\* returns the same U, sends no request, writes nothing and leaves the file
\* as it is.
C1_SecondCallIsPureHit ==
    /\ [](FirstUpload =>
            /\ last.lookup = "miss"
            /\ WellFormed(fs.file)
            /\ LET e == EntriesOf(fs.file)
               IN /\ Len(e) > 0
                  /\ e[Len(e)].id = last.item
                  /\ e[Len(e)].url = last.res.val)
    /\ [][(/\ FirstUpload
           /\ last' # last
           /\ last'.item = last.item
           /\ (WholeSeconds(last.time) + options.expiration) * SubSec
                 >= last'.time)
          => (/\ last'.lookup = "hit"
              /\ last'.res = last.res
              /\ last'.uploads = 0
              /\ last'.net = 0
              /\ last'.writes = 0
              /\ fs' = fs)]_vars

\* C1 witness: a hit on an entry that an earlier call uploaded (the files
\* the program starts with hold no such URL), returned with no upload, no
\* request and no write.
C1_Witness ==
    /\ last.lookup = "hit"
    /\ last.found.url \in {"http://a", "http://b"}
    /\ last.res = Ok(last.found.url)
    /\ last.uploads = 0 /\ last.net = 0 /\ last.writes = 0
    /\ fs = last.pre

(* -------------------------------- C2 ---------------------------------- *)

\* C2 as stated: every call writes at most once, only after a miss or an
\* expired entry, and never on a hit.
C2_AtMostOneWrite ==
    /\ last.writes <= 1
    /\ (last.writes > 0 => last.lookup \in {"miss", "expired"})
    /\ (last.lookup = "hit" => last.writes = 0)

\* C2 amended: a call writes at most twice: read_file writes once, and only
\* when the file could not be read or parsed (it recreates it as an empty
\* array); get_image itself writes at most once more, only after a miss or
\* an expired entry. A call on a well-formed file writes at most once, and a
\* call that ends in a hit writes nothing.
C2_WritesAmended ==
    /\ last.loadWrites <= 1
    /\ (last.loadWrites = 1 => ~WellFormed(last.pre.file))
    /\ last.writes - last.loadWrites \in {0, 1}
    /\ (last.writes - last.loadWrites = 1
          => last.lookup \in {"miss", "expired"})
    /\ (WellFormed(last.pre.file) => last.writes <= 1)
    /\ (last.lookup = "hit" => last.writes = 0 /\ fs = last.pre)

\* C2 witness: a call on an absent file that wrote twice, the empty array of
\* read_file and then the sequence with the new entry.
C2_Witness ==
    /\ last.pre.file = Absent
    /\ last.lookup = "miss"
    /\ last.res.ok
    /\ last.writes = 2

(* -------------------------------- C3 ---------------------------------- *)

\* C3 as stated: when upload fails the file is what it was before the call,
\* whatever it was.
C3_UploadFailureKeepsFile ==
    "upload" \in last.failed => fs.file = last.pre.file

\* C3 amended: when upload fails the file is what read_file left: the file
\* of before the call when that was well-formed (also when its entry for the
\* item is expired: the removal is not written), and an empty array when it
\* was absent, unreadable or malformed.
C3_UploadFailureAmended ==
    "upload" \in last.failed =>
        /\ ~last.res.ok
        /\ IF WellFormed(last.pre.file)
           THEN fs = last.pre
           ELSE fs.file = to_string(<<>>)

\* C3 witness: an upload that failed after the lookup found an expired
\* entry, which is still in the file.
C3_Witness ==
    /\ "upload" \in last.failed
    /\ last.lookup = "expired"
    /\ PositionsOf(EntriesOf(fs.file), last.item) # {}

(* -------------------------------- C4 ---------------------------------- *)

\* The latest call found an entry for its item and compared its expiry.
Compared == last.lookup \in {"hit", "expired"}

\* C4 as stated: an entry whose expiry equals the whole seconds of the
\* current time is a hit, at every instant; one second less is expired, one
\* second more is valid.
C4_WholeSecondBoundary ==
    Compared =>
        LET e == last.found.expiration_from_unix_seconds
            s == WholeSeconds(last.time)
        IN /\ (e = s => last.lookup = "hit")
           /\ (e = s - 1 => last.lookup = "expired")
           /\ (e = s + 1 => last.lookup = "hit")

\* C4 amended: an entry whose expiry equals the current time exactly (no
\* sub-second part) is a hit; when the whole seconds are equal and the
\* sub-second part of the current time is not zero the entry is expired. An
\* earlier expiry is expired, a later one is valid.
C4_BoundaryAmended ==
    Compared =>
        LET e == last.found.expiration_from_unix_seconds
            s == WholeSeconds(last.time)
        IN /\ (e = s /\ SubSecond(last.time) = 0 => last.lookup = "hit")
           /\ (e = s /\ SubSecond(last.time) # 0 => last.lookup = "expired")
           /\ (e < s => last.lookup = "expired")
           /\ (e > s => last.lookup = "hit")

\* C4 witness: a hit on an entry that expires at the very instant of the
\* call.
C4_Witness ==
    /\ last.lookup = "hit"
    /\ last.found.expiration_from_unix_seconds = WholeSeconds(last.time)
    /\ SubSecond(last.time) = 0

(* -------------------------------- C5 ---------------------------------- *)

\* The latest call found an expired entry, uploaded and saved.
Replaced == last.lookup = "expired" /\ last.res.ok

\* The entry C5 expects for the item of the latest call.
Replacement ==
    ImageUrl(last.item, last.res.val,
             WholeSeconds(last.time) + options.expiration)

HasCalled == last.item # ""

\* C6 as stated: after any call the file holds what it held before the call
\* or the complete serialized sequence the call computed; it is never left
\* empty or partially written.
C6_AllOrNothing ==
    HasCalled =>
        \/ fs.file = last.pre.file
        \/ fs.file = to_string(last.image_urls)

(* -------------------------------- C7 ---------------------------------- *)

\* The filesystem operations of read_file whose error read_file returns.
LoadErrors == {"parent", "create_dir_all", "create", "load_write"}

\* C7: when the file is absent and no filesystem operation fails, read_file
\* returns an empty sequence and leaves the parent folder and, in it, a file
\* holding an empty JSON array.
C7_AbsentFileLoadsEmpty ==
    (/\ HasCalled
     /\ last.pre.file = Absent
     /\ last.failed \cap LoadErrors = {})
    => /\ last.loaded = Ok(<<>>)
       /\ last.afterLoad.dir
       /\ last.afterLoad.file.kind = "array"
       /\ last.afterLoad.file.items = <<>>
       /\ from_str(last.afterLoad.file) = Ok(<<>>)

\* C7 witness: a call found neither the folder nor the file, and its
\* read_file returned the empty sequence.
C7_Witness ==
    /\ HasCalled
    /\ ~last.pre.dir
    /\ last.pre.file = Absent
    /\ last.loaded = Ok(<<>>)
    /\ last.afterLoad.dir

(* -------------------------------- C8 ---------------------------------- *)

\* C8: when the file exists and does not deserialize (not UTF-8, not JSON,
\* empty, cut short, or an array with an entry that lacks the expiry) and no
\* filesystem operation fails, read_file returns an empty sequence and
\* leaves an empty array in the file, and the lookup that follows finds
\* nothing.
C8_MalformedFileIsReset ==
    (/\ HasCalled
     /\ last.pre.file # Absent
     /\ ~WellFormed(last.pre.file)
     /\ last.failed \cap LoadErrors = {})
    => /\ last.loaded = Ok(<<>>)
       /\ last.afterLoad.file.kind = "array"
       /\ last.afterLoad.file.items = <<>>
       /\ last.found = NoEntry
       /\ IF last.time >= 0 THEN last.lookup = "miss"
          ELSE last.lookup = "none"

\* C8 witness: the file held an array whose entry, for the item of the call,
\* lacks the expiry field; the call's lookup was a miss.
C8_Witness ==
    /\ last.pre.file.kind = "array"
    /\ Len(last.pre.file.items) = 1
    /\ last.pre.file.items[1].id = last.item
    /\ ExpiryKey \notin DOMAIN last.pre.file.items[1]
    /\ last.loaded = Ok(<<>>)
    /\ last.lookup = "miss"

(* -------------------------------- C9 ---------------------------------- *)

\* The operations whose error get_image returns: those of read_file, the
\* clock, upload (fetching the artwork, posting it, parsing the answer) and
\* the open and write of the save. (The errors of read_to_string, of the
\* parse and of the two flushes are dropped by the code.)
Surfaced == LoadErrors \cup {"clock", "upload", "open", "save_write"}

\* C9: a call in which one of these operations failed returns an error and
\* no URL; so does, in particular, a call whose upload succeeded and whose
\* save failed.
C9_FailuresSurface ==
    /\ (last.failed \cap Surfaced # {}
          => ~last.res.ok /\ last.res.val = "none" /\ last.res.err # "none")
    /\ (/\ last.uploads = 1
        /\ "upload" \notin last.failed
        /\ last.failed \cap {"open", "save_write"} # {}
        => ~last.res.ok)

\* C9 witness: the upload succeeded, the write of the save failed and the
\* call returned an error.
C9_Witness ==
    /\ last.uploads = 1
    /\ "upload" \notin last.failed
    /\ "save_write" \in last.failed
    /\ ~last.res.ok

(* -------------------------------- C10 --------------------------------- *)

\* The positions of the entries for id that are not expired at instant t.
ValidAt(entries, id, t) ==
    {i \in PositionsOf(entries, id) :
        entries[i].expiration_from_unix_seconds * SubSec >= t}

\* C10: started from an absent file or an empty array, the store each call
\* consults (and the file at every instant) holds at most one entry per id
\* that is not expired.
C10_OneValidEntryPerId ==
    fresh =>
        /\ (last.loaded.ok =>
              \A id \in Items :
                  Cardinality(ValidAt(last.loaded.val, id, last.time)) <= 1)
        /\ (WellFormed(fs.file) =>
              \A id \in Items :
                  Cardinality(ValidAt(EntriesOf(fs.file), id, now)) <= 1)

\* C10 witness: started from an absent file or an empty array, a call
\* consulted a store with entries for both items, replaced the expired one,
\* and the file holds one valid entry for it.
C10_Witness ==
    /\ fresh
    /\ Replaced
    /\ Len(last.loaded.val) = 2
    /\ Cardinality(ValidAt(EntriesOf(fs.file), last.item, now)) = 1


(* ---------------------------------- C11 ------------------------------- *)

\* The first entry for id in the file has expired at instant t.
Stale(file, id, t) ==
    /\ WellFormed(file)
    /\ find(EntriesOf(file), id) # 0
    /\ expiration_as_duration(EntriesOf(file)[find(EntriesOf(file), id)]) < t

\* C11: every hit returns the URL of an entry whose expiry is not earlier
\* than the time of the call; and a call for an id whose first entry had
\* expired when the call read the clock is never a hit: when it succeeds it
\* has removed that entry, uploaded, and appended a new entry for the id.
C11_ExpiredNeverHit ==
    /\ last.lookup = "hit" =>
            /\ expiration_as_duration(last.found) >= last.time
            /\ last.res = UrlParse(last.found.url)
            /\ last.uploads = 0
    /\ Stale(last.pre.file, last.item, last.time) =>
            LET stored == EntriesOf(last.pre.file)
                index == find(stored, last.item)
            IN /\ last.lookup \in {"none", "expired"}
               /\ last.res.ok =>
                    /\ last.lookup = "expired"
                    /\ last.uploads = 1
                    /\ last.found = stored[index]
                    /\ EntriesOf(fs.file)
                         = Append(remove(stored, index),
                                  NewImageUrl(last.item, last.res.val,
                                              last.time, options.expiration))

\* An expired entry was replaced by a call, time went on, and the id is
\* valid again through the new entry.
C11_Witness ==
    /\ last.lookup = "expired"
    /\ last.res.ok
    /\ expiration_as_duration(last.found) < last.time
    /\ now > last.time
    /\ WellFormed(fs.file)
    /\ find(EntriesOf(fs.file), last.item) = Len(EntriesOf(fs.file))
    /\ ~Stale(fs.file, last.item, now)


(* ---------------------------------- C15 ------------------------------- *)

\* The latest call uploaded and wrote the whole sequence.
Saved == last.res.ok /\ last.uploads = 1

\* The store as the latest call found it: the entries of the file, none when
\* the file was absent or malformed.
Before ==
    IF WellFormed(last.pre.file) THEN EntriesOf(last.pre.file) ELSE <<>>

\* The entries of other ids than id, in their order.
OthersOf(entries, id) == SelectSeq(entries, LAMBDA e : e.id # id)

\* C15: after a call for X that ends in a successful save, the entries of
\* other ids are the same and in the same order as before the call, at most
\* the first entry for X was removed, the new entry for X is last, and
\* loading the file yields exactly that sequence, with no write.
C15_SaveFrame ==
    Saved =>
        LET after == EntriesOf(fs.file)
            X == last.item
        IN /\ WellFormed(fs.file)
           /\ OthersOf(after, X) = OthersOf(Before, X)
           /\ SubSeq(after, 1, Len(after) - 1)
                \in {Before, remove(Before, find(Before, X))}
           /\ after[Len(after)].id = X
           /\ after[Len(after)].url = last.res.val
           /\ read_file(fs, options.urls_location)
                = {Loaded(Ok(after), fs, 0, {})}
           /\ after = last.image_urls

\* A save that removed the expired first entry of the item from a store that
\* also held an entry of another id.
C15_Witness ==
    /\ Saved
    /\ last.lookup = "expired"
    /\ OthersOf(Before, last.item) # <<>>
    /\ Len(EntriesOf(fs.file)) = Len(Before)


(* ---------------------------------- C17 ------------------------------- *)

\* The latest call found the store well-formed, with a first entry for its
\* item whose url does not parse.
BadUrlFirst ==
    /\ HasCalled
    /\ last.time >= 0
    /\ WellFormed(last.pre.file)
    /\ find(Before, last.item) # 0
    /\ ~UrlParse(Before[find(Before, last.item)].url).ok

\* C17: a call whose item's first entry is not expired and has a url that
\* does not parse returns the parse error with no upload, no request and no
\* change to the file, so a later call finds the same entry and fails the
\* same way; once the expiry has passed the call takes the expired branch:
\* it uploads, and when it succeeds the entry is replaced by a new one.
C17_BadUrlFailsUntilExpiry ==
    BadUrlFirst =>
        LET index == find(Before, last.item)
        IN IF expiration_as_duration(Before[index]) >= last.time
           THEN /\ last.res = Err("url")
                /\ last.lookup = "hit"
                /\ last.uploads = 0 /\ last.net = 0 /\ last.writes = 0
                /\ fs = last.pre
           ELSE /\ last.lookup = "expired"
                /\ last.uploads = 1
                /\ last.res.ok =>
                     EntriesOf(fs.file)
                       = Append(remove(Before, index),
                                ImageUrl(last.item, last.res.val,
                                         WholeSeconds(last.time)
                                             + options.expiration))

\* The entry with the bad url was replaced once it had expired.
C17_ReplacedAfterExpiry ==
    /\ BadUrlFirst
    /\ last.lookup = "expired"
    /\ last.res.ok
    /\ last.found.url = "no url"
    /\ \A i \in PositionsOf(EntriesOf(fs.file), last.item) :
            UrlParse(EntriesOf(fs.file)[i].url).ok

\* The call failed on the bad url of an entry that is not expired, in a
\* store that an earlier call for the other item had written.
C17_Witness ==
    /\ BadUrlFirst
    /\ last.res = Err("url")
    /\ OthersOf(Before, last.item) # <<>>


(* ---------------------------------- C18 ------------------------------- *)

FlushErrors == {"load_flush", "save_flush"}

\* C18: a flush that fails after a successful write changes nothing: in
\* get_image the call still returns the uploaded URL with the whole sequence
\* in the file, in read_file the load still returns the empty sequence with
\* the empty array in the file, and the call has the result, the file and
\* the in-memory sequence of an outcome of the same call whose flushes
\* succeeded.
C18_FlushFailureIgnored ==
    /\ "save_flush" \in last.failed =>
            /\ last.res.ok
            /\ last.uploads = 1
            /\ last.res.val = last.image_urls[Len(last.image_urls)].url
            /\ fs.file = to_string(last.image_urls)
    /\ "load_flush" \in last.failed =>
            /\ last.loaded = Ok(<<>>)
            /\ last.afterLoad.file = to_string(<<>>)
    /\ last.failed \cap FlushErrors # {} =>
            \E o \in get_image(last.pre, options, last.item, last.time) :
                /\ o.failed = last.failed \ FlushErrors
                /\ o.res = last.res
                /\ o.fs = fs
                /\ o.loaded = last.loaded
                /\ o.afterLoad = last.afterLoad
                /\ o.image_urls = last.image_urls

\* Both flushes of one call failed, and the call returned the URL.
C18_Witness ==
    /\ FlushErrors \subseteq last.failed
    /\ last.res.ok
    /\ from_str(fs.file) = Ok(last.image_urls)


(* ---------------------------------- C16 ------------------------------- *)

\* C16: the expiry stored by a call that saved is the whole seconds of the
\* clock value the call read plus the configured expiration, as numbers,
\* whatever the expiration; and a call that uploaded got as far as storing
\* it.
C16_ExpiryIsClockPlusTTL ==
    /\ Saved =>
          last.image_urls[Len(last.image_urls)].expiration_from_unix_seconds
              = WholeSeconds(last.time) + options.expiration
    /\ "overflow" \notin last.failed


(* ---------------------------------- C19 ------------------------------- *)

\* The key file at an optional path cannot be read.
Unreadable(key_path, files) ==
    key_path.some /\ ~read_key_file(files, key_path.val).ok

\* C19: load reports the first failure in the order InvalidConfigPath,
\* InvalidConfig, InvalidJellyfinKeyPath, InvalidImgBBKeyPath, and then
\* MissingJellyfinKey exactly when neither the configuration nor a key file
\* gave a Jellyfin api_key; when it succeeds, the text of a key file (trimmed)
\* is the Jellyfin api_key resp. the ImgBB api_token whatever the
\* configuration gave, and without key file the configuration's value stays.
C19_LoadOrder ==
    config.loaded =>
        LET i == config.input
            r == config.result
            given == i.config_file.parsed
            parses == i.config_file.kind = "config"
            jf_bad == Unreadable(i.jellyfin_key_path, i.files)
            imgbb_bad == Unreadable(i.imgbb_key_path, i.files)
            no_key == ~given.jellyfin.api_key.some /\ ~i.jellyfin_key_path.some
        IN /\ (r = Err("InvalidConfigPath")) = (i.config_file.kind = "unreadable")
           /\ (r = Err("InvalidConfig")) = (i.config_file.kind = "invalid")
           /\ (r = Err("InvalidJellyfinKeyPath")) = (parses /\ jf_bad)
           /\ (r = Err("InvalidImgBBKeyPath"))
                = (parses /\ ~jf_bad /\ imgbb_bad)
           /\ (r = Err("MissingJellyfinKey"))
                = (parses /\ ~jf_bad /\ ~imgbb_bad /\ no_key)
           /\ r.ok = (parses /\ ~jf_bad /\ ~imgbb_bad /\ ~no_key)
           /\ r.ok =>
                /\ r.val.jellyfin.api_key
                     = IF i.jellyfin_key_path.some
                       THEN Some(trim(i.files[i.jellyfin_key_path.val]))
                       ELSE given.jellyfin.api_key
                /\ IF i.imgbb_key_path.some
                   THEN /\ r.val.imgbb.some
                        /\ r.val.imgbb.val.api_token
                             = Some(trim(i.files[i.imgbb_key_path.val]))
                   ELSE r.val.imgbb = given.imgbb

\* load succeeded with both key files, over a configuration that gave a
\* Jellyfin api_key and an ImgBB api_token of its own.
C19_Witness ==
    /\ config # NoConfig
    /\ config.loaded
    /\ config.result.ok
    /\ config.input.config_file.parsed.jellyfin.api_key = Some("k0")
    /\ config.input.config_file.parsed.imgbb.val.api_token = Some("t0")
    /\ config.result.val.jellyfin.api_key = Some("k1")
    /\ config.result.val.imgbb.val.api_token = Some("t1")


(* ------------------------------ C12 - C14 ----------------------------- *)

\* The call of a caller wrote the file and returned the URL.
HasSaved(c) == calls[c].pc = "done" /\ calls[c].order > 0

\* The entry the call of a caller pushed.
PushedBy(c) == calls[c].image_urls[Len(calls[c].image_urls)]

\* The entries of a sequence, as a set.
Range(entries) == {entries[i] : i \in 1..Len(entries)}

\* C12: when two calls for different items have both saved and the file is
\* well-formed, the file holds the sequence of the call that wrote last, and
\* it lacks the entry of the call that wrote first, whose URL was returned,
\* exactly when the last writer had loaded before the first write: the lost
\* update of the read-modify-write race is reachable (C12_Witness).
C12_LastWriterWins ==
    \A c, d \in Callers :
        (/\ HasSaved(c) /\ HasSaved(d)
         /\ calls[c].order < calls[d].order
         /\ calls[c].item # calls[d].item
         /\ WellFormed(fs.file)) =>
            /\ calls[c].res.ok /\ calls[d].res.ok
            /\ fs.file = to_string(calls[d].image_urls)
            /\ (PushedBy(c) \notin Range(EntriesOf(fs.file))) = calls[d].stale

\* Both calls loaded the same snapshot, both uploaded and returned a URL,
\* and the file, written last by the second, lacks the entry of the first.
C12_Witness ==
    \E c, d \in Callers :
        /\ HasSaved(c) /\ HasSaved(d)
        /\ calls[c].order < calls[d].order
        /\ calls[c].item # calls[d].item
        /\ calls[c].snapshot = calls[d].snapshot
        /\ calls[c].res.ok /\ calls[d].res.ok
        /\ WellFormed(fs.file)
        /\ PushedBy(d) \in Range(EntriesOf(fs.file))
        /\ \A e \in Range(EntriesOf(fs.file)) : e.id # calls[c].item

\* A call that found its item's entry expired has truncated the file, while
\* the other call, for the same item, has appended and saved after the
\* first one loaded.
RewriteAfterAppend(c, d) ==
    /\ calls[c].pc = "opened"
    /\ calls[c].lookup = "expired"
    /\ calls[c].stale
    /\ HasSaved(d)
    /\ calls[d].item = calls[c].item

\* C13: from a file without duplicate ids, when a call has removed the
\* expired entry of its item and a concurrent call for the same item has
\* appended before the first rewrite completes, the rewrite can leave two
\* entries of the item in the file.
C13_DuplicatesCanArise ==
    \A c, d \in Callers :
        RewriteAfterAppend(c, d) =>
            \E text \in Overwrite(fs.file, to_string(calls[c].image_urls)) :
                /\ WellFormed(text)
                /\ ~NoDuplicateIds(EntriesOf(text))

\* C13 amended: from a file without duplicate ids, no interleaving of two
\* calls leaves two entries of one id, in the file or in a call's sequence:
\* every call writes what it loaded, less the first entry of its item,
\* plus one entry, so the concurrent append is overwritten, not doubled.
C13_NoDuplicateIdsArise ==
    /\ WellFormed(fs.file) => NoDuplicateIds(EntriesOf(fs.file))
    /\ \A c \in Callers : NoDuplicateIds(calls[c].image_urls)

\* Both calls found the same entry of their item expired, both saved, the
\* second over the append of the first, and the file holds one entry.
C13_Witness ==
    \E c, d \in Callers :
        /\ HasSaved(c) /\ HasSaved(d)
        /\ calls[c].order < calls[d].order
        /\ calls[c].item = calls[d].item
        /\ calls[c].lookup = "expired" /\ calls[d].lookup = "expired"
        /\ calls[c].found = calls[d].found
        /\ calls[d].stale
        /\ fs.file = to_string(calls[d].image_urls)
        /\ Len(EntriesOf(fs.file)) = 1

\* C14: no read_file of a call reads the file while another call stands
\* between the open that truncated it and its write_all, so none takes a
\* save in progress for a malformed file and recreates the store empty.
C14_RewriteIsAtomic ==
    \A c \in Callers : ~(calls[c].sawTruncated /\ calls[c].reset)

====
